---- MODULE Spec2Model ----
(***************************************************************************)
(* A model of train_ml_model.py: the document builder (prepare_text,       *)
(* get_amount_bucket) and the batch pipeline main -> load_data -> train -> *)
(* export_model of TransactionMLTrainer.                                   *)
(*                                                                         *)
(* Conventions.                                                            *)
(*  - An optional cell of a CSV row is <<>> when it is missing (NaN/None,  *)
(*    pd.notna is false) and <<v>> when it holds v.                        *)
(*  - A text is a sequence of atoms: words, and the separator " ".         *)
(*  - An amount is an integer number of cents (100.00 is 10000).           *)
(*  - A table (DataFrame, array of rows) is a bag of row kinds: a function *)
(*    from the row kinds to the number of rows of that kind.  The order of *)
(*    the rows matters to the code only through the order in which the     *)
(*    vectorizer first meets each feature; the split keeps that order.     *)
(*  - A real number that the code computes by a logarithm or by numerical  *)
(*    optimisation is kept as the term that determines it.                 *)
(***************************************************************************)
EXTENDS Integers, Sequences, FiniteSets, TLC

\* ------------------------------------------------------------ bounds
\* A row kind occurs at most MaxPerKind times in the input file.
MaxPerKind == 5
\* Amounts are drawn within MaxDelta cents of each bucket boundary.
MaxDelta == 2
\* At most MaxOutside rows of the input file have a category outside CATEGORIES.
MaxOutside == 1

\* ------------------------------------------------------------ registry
CATEGORIES ==
  << "Food & Dining", "Groceries", "Transportation", "Shopping",
     "Bills & Utilities", "Entertainment", "Health & Fitness", "Education",
     "Travel", "Personal Care", "Investments", "Other" >>

Range(s) == { s[i] : i \in DOMAIN s }

\* x in CATEGORIES (Series.isin)
isin(x, list) == x \in Range(list)

\* ------------------------------------------------------------ documents
amount_buckets ==
  << "tiny_amount", "small_amount", "medium_amount", "large_amount",
     "huge_amount" >>

\* The same chain of comparisons with <= for <: the boundary value falls in
\* the bucket below.
get_amount_bucket_inclusive(amount) ==
  IF amount <= 100 * 100 THEN "tiny_amount"
  ELSE IF amount <= 500 * 100 THEN "small_amount"
  ELSE IF amount <= 1000 * 100 THEN "medium_amount"
  ELSE IF amount <= 5000 * 100 THEN "large_amount"
  ELSE "huge_amount"

\* get_amount_bucket(amount), amount in cents
get_amount_bucket(amount) ==
  IF amount < 100 * 100 THEN "tiny_amount"
  ELSE IF amount < 500 * 100 THEN "small_amount"
  ELSE IF amount < 1000 * 100 THEN "medium_amount"
  ELSE IF amount < 5000 * 100 THEN "large_amount"
  ELSE "huge_amount"

notna(cell) == cell # <<>>

\* ' '.join(parts): the parts with one separator between neighbours
RECURSIVE join(_)
join(parts) ==
  IF parts = <<>> THEN <<>>
  ELSE IF Len(parts) = 1 THEN parts[1]
  ELSE parts[1] \o <<" ">> \o join(Tail(parts))

\* float(nan) compares false with everything: every branch of
\* get_amount_bucket fails and the else branch answers.
prepare_text_unguarded(row) ==
  join( (IF notna(row.description) THEN << row.description[1] >> ELSE <<>>)
        \o (IF notna(row.merchant) THEN << row.merchant[1] >> ELSE <<>>)
        \o (IF notna(row.amount)
              THEN << << get_amount_bucket(row.amount[1]) >> >>
              ELSE << << "huge_amount" >> >>) )

\* prepare_text(row): parts is built by three guarded appends and joined
prepare_text(row) ==
  join( (IF notna(row.description) THEN << row.description[1] >> ELSE <<>>)
        \o (IF notna(row.merchant) THEN << row.merchant[1] >> ELSE <<>>)
        \o (IF notna(row.amount)
              THEN << << get_amount_bucket(row.amount[1]) >> >>
              ELSE <<>>) )

\* ------------------------------------------------------------ tables
None == <<>>
Some(x) == << x >>

\* The row kinds an input file is made of: one labelled with each of three
\* registry categories, one with a label outside the registry.  Cells are
\* optional; descriptions mix case, a short word and a stop word.
Kinds == { "k1", "k2", "k3", "k4" }

KindRow ==
  [ k \in Kinds |->
      CASE k = "k1" -> [ description |-> << << "Uber", " ", "ride", " ", "to", " ", "airport" >> >>,
                         merchant |-> << << "Uber" >> >>,
                         amount |-> << 65000 >>,
                         category |-> "Transportation" ]
        [] k = "k2" -> [ description |-> << << "DMart", " ", "the", " ", "weekly" >> >>,
                         merchant |-> <<>>,
                         amount |-> << 68000 >>,
                         category |-> "Groceries" ]
        [] k = "k3" -> [ description |-> << << "Zomato", " ", "dinner" >> >>,
                         merchant |-> << << "Zomato" >> >>,
                         amount |-> <<>>,
                         category |-> "Food & Dining" ]
        [] OTHER    -> [ description |-> << << "Refund", " ", "order" >> >>,
                         merchant |-> <<>>,
                         amount |-> << 12000 >>,
                         category |-> "Refund" ] ]

\* Bags of row kinds
EmptyBag == [ k \in Kinds |-> 0 ]

RECURSIVE SumOver(_, _)
SumOver(f, S) ==
  IF S = {} THEN 0
  ELSE LET x == CHOOSE x \in S : TRUE IN f[x] + SumOver(f, S \ {x})

\* len(table)
Size(bag) == SumOver(bag, Kinds)

Support(bag) == { k \in Kinds : bag[k] > 0 }

\* the labels of a table's rows (unique values of its category column)
Labels(bag) == { KindRow[k].category : k \in Support(bag) }

\* value_counts of the category column
ClassCount(bag, c) ==
  SumOver(bag, { k \in Kinds : KindRow[k].category = c })

\* Every label a row may carry, in the order np.unique and sorted() give
\* strings (code point order).
SortedLabels ==
  << "Bills & Utilities", "Education", "Entertainment", "Food & Dining",
     "Groceries", "Health & Fitness", "Investments", "Other",
     "Personal Care", "Refund", "Shopping", "Transportation", "Travel" >>

\* np.unique of a label column: its distinct labels, sorted
unique(labels) == SelectSeq(SortedLabels, LAMBDA c : c \in labels)

\* ------------------------------------------------------------ vectorizer
\* TfidfVectorizer's settings
max_features == 1000
min_df == 2
\* max_df = 0.8, as a fraction
max_df_num == 8
max_df_den == 10

\* str.lower on the words the row kinds use
lower(w) ==
  CASE w = "Uber" -> "uber"
    [] w = "DMart" -> "dmart"
    [] w = "Zomato" -> "zomato"
    [] w = "Refund" -> "refund"
    [] OTHER -> w

\* sklearn's English stop words that the row kinds use
stop_words == { "the", "to" }

\* The lower-cased words in code point order: the order of sorted().
WordOrder ==
  << "airport", "dinner", "dmart", "huge_amount", "large_amount",
     "medium_amount", "order", "refund", "ride", "small_amount", "the",
     "tiny_amount", "to", "uber", "weekly", "zomato" >>

WordRank(w) == CHOOSE i \in DOMAIN WordOrder : WordOrder[i] = w

\* token_pattern \w{3,} after lower-casing, then the stop word filter
tokenize(doc) ==
  LET words == SelectSeq(doc, LAMBDA a : a # " ")
      lowered == [ i \in DOMAIN words |-> lower(words[i]) ]
      long == SelectSeq(lowered, LAMBDA w : Len(w) >= 3)
  IN SelectSeq(long, LAMBDA w : w \notin stop_words)

\* ngram_range (1, 2): the unigrams in order, then the bigrams in order.  A
\* feature is the tuple of its words (the feature string joins them by " ").
analyzer(doc) ==
  LET t == tokenize(doc)
  IN [ i \in 1..Len(t) |-> << t[i] >> ]
     \o [ i \in 1..(IF Len(t) = 0 THEN 0 ELSE Len(t) - 1) |-> << t[i], t[i + 1] >> ]

\* string comparison of two features
FeatureLess(f, g) ==
  \/ WordRank(f[1]) < WordRank(g[1])
  \/ /\ f[1] = g[1]
     /\ \/ Len(f) < Len(g)
        \/ /\ Len(f) = 2
           /\ Len(g) = 2
           /\ WordRank(f[2]) < WordRank(g[2])

\* number of occurrences of x in sequence s
CountIn(s, x) == Cardinality({ i \in DOMAIN s : s[i] = x })

\* the distinct elements of s in the order of their first occurrence
RECURSIVE FirstSeen(_)
FirstSeen(s) ==
  IF s = <<>> THEN <<>>
  ELSE LET r == FirstSeen(SubSeq(s, 1, Len(s) - 1))
           x == s[Len(s)]
       IN IF x \in Range(r) THEN r ELSE Append(r, x)

RECURSIVE Flatten(_)
Flatten(ss) == IF ss = <<>> THEN <<>> ELSE ss[1] \o Flatten(Tail(ss))

\* the documents of a table's rows, by kind
Docs(X) == [ k \in DOMAIN X |-> analyzer(X[k]) ]

\* document frequency and corpus term frequency of feature f in the rows rows
\* of documents X
DocFreq(X, rows, f) ==
  SumOver(rows, { k \in DOMAIN X : f \in Range(Docs(X)[k]) })

TermFreq(X, rows, f) ==
  SumOver([ k \in DOMAIN X |-> rows[k] * CountIn(Docs(X)[k], f) ], DOMAIN X)

\* _limit_features: the terms within [min_df, max_df * n_doc], and of those
\* at most max_features, the most frequent in the corpus
limit_features(X, rows, terms) ==
  LET n_doc == Size(rows)
      inside == { f \in terms :
                    /\ DocFreq(X, rows, f) >= min_df
                    /\ max_df_den * DocFreq(X, rows, f) <= max_df_num * n_doc }
  IN IF Cardinality(inside) <= max_features THEN inside
     ELSE CHOOSE top \in SUBSET inside :
            /\ Cardinality(top) = max_features
            /\ \A f \in top : \A g \in inside \ top :
                 TermFreq(X, rows, f) >= TermFreq(X, rows, g)

\* The error TfidfVectorizer.fit_transform raises on the training rows, or
\* "" when it fits.
fit_error(X, rows, order) ==
  LET seen == Range(Flatten([ i \in DOMAIN order |-> Docs(X)[order[i]] ]))
  IN IF seen = {} THEN "empty vocabulary"
     ELSE IF max_df_num * Size(rows) < max_df_den * min_df
       THEN "max_df corresponds to < documents than min_df"
     ELSE IF limit_features(X, rows, seen) = {} THEN "After pruning, no terms remain"
     ELSE ""

\* TfidfVectorizer.fit on the training rows (rows: how many of each kind,
\* order: the kinds in the order of their first row).  vocabulary_ is a dict:
\* keys are its terms in insertion order (first occurrence in the corpus),
\* index maps a term to its column, the rank of the term among the sorted
\* terms.  idf_[j + 1] is the idf of column j, ln((1 + n) / (1 + df)) + 1,
\* kept as the pair (n, df).
fit_vectorizer(X, rows, order) ==
  LET met == FirstSeen(Flatten([ i \in DOMAIN order |-> Docs(X)[order[i]] ]))
      kept == limit_features(X, rows, Range(met))
      index == [ f \in kept |-> Cardinality({ g \in kept : FeatureLess(g, f) }) ]
      column == [ j \in 1..Cardinality(kept) |-> CHOOSE f \in kept : index[f] = j - 1 ]
  IN [ vocabulary_ |-> [ keys |-> SelectSeq(met, LAMBDA f : f \in kept),
                         index |-> index ],
       idf_ |-> [ j \in 1..Cardinality(kept) |->
                    [ n |-> Size(rows), df |-> DocFreq(X, rows, column[j]) ] ] ]

\* get_feature_names_out(): the terms by column
get_feature_names_out(v) ==
  [ j \in 1..Len(v.vocabulary_.keys) |->
      CHOOSE f \in Range(v.vocabulary_.keys) : v.vocabulary_.index[f] = j - 1 ]

\* ------------------------------------------------------------ split
test_size_num == 2
test_size_den == 10
\* ceil(test_size * n): the size of the held-out part
n_test_of(n) == (test_size_num * n + test_size_den - 1) \div test_size_den

\* sklearn's _approximate_mode: n_draws rows shared among the classes in
\* proportion to counts, the rows left after flooring going to the classes
\* with the largest remainders, ties drawn at random: every outcome.
approximate_mode(counts, n_draws) ==
  LET classes == DOMAIN counts
      total == SumOver(counts, classes)
      floored == [ c \in classes |-> (counts[c] * n_draws) \div total ]
      remainder == [ c \in classes |-> (counts[c] * n_draws) % total ]
      need == n_draws - SumOver(floored, classes)
  IN { [ c \in classes |-> floored[c] + (IF c \in up THEN 1 ELSE 0) ] :
         up \in { u \in SUBSET classes :
                    /\ Cardinality(u) = need
                    /\ \A c \in u : \A d \in classes \ u :
                         remainder[c] >= remainder[d] } }

KindsOf(c) == { k \in Kinds : KindRow[k].category = c }

\* the ways of taking m rows of class c from a table
ClassRows(table, c, m) ==
  { t \in [ KindsOf(c) -> 0..m ] :
      /\ \A k \in KindsOf(c) : t[k] <= table[k]
      /\ SumOver(t, KindsOf(c)) = m }

\* the bags that hold alloc[c] rows of each class c of classes, and no others
RECURSIVE RowsByClass(_, _, _)
RowsByClass(table, classes, alloc) ==
  IF classes = {} THEN { [ k \in Kinds |-> 0 ] }
  ELSE LET c == CHOOSE c \in classes : TRUE
       IN { [ k \in Kinds |-> IF k \in KindsOf(c) THEN here[k] ELSE rest[k] ] :
              here \in ClassRows(table, c, alloc[c]),
              rest \in RowsByClass(table, classes \ {c}, alloc) }

\* A split without stratify: any n_train rows.
split_rows_unstratified(table) ==
  LET n == Size(table)
      n_train == n - n_test_of(n)
      classes == Labels(table)
  IN UNION { RowsByClass(table, classes, alloc) :
               alloc \in { a \in [ classes -> 0..n_train ] :
                             /\ \A c \in classes : a[c] <= ClassCount(table, c)
                             /\ SumOver(a, classes) = n_train } }

\* The bags of rows train_test_split(..., stratify=y) may put in the
\* training part: per class the number _approximate_mode allots, and any
\* rows of the class (a random permutation picks them).
split_rows(table) ==
  LET n == Size(table)
      n_train == n - n_test_of(n)
      classes == Labels(table)
      counts == [ c \in classes |-> ClassCount(table, c) ]
  IN UNION { RowsByClass(table, classes, alloc) :
               alloc \in approximate_mode(counts, n_train) }

\* The check that every class has two members, dropped.
split_error_unchecked(table) ==
  LET n == Size(table)
      n_test == n_test_of(n)
      n_train == n - n_test
      n_classes == Cardinality(Labels(table))
  IN IF n_train = 0 THEN "the resulting train set will be empty"
     ELSE IF n_train < n_classes
       THEN "The train_size should be greater or equal to the number of classes"
     ELSE IF n_test < n_classes
       THEN "The test_size should be greater or equal to the number of classes"
     ELSE ""

\* The ValueError train_test_split(X_text, y, test_size=0.2, stratify=y)
\* raises, or "" when it splits.
split_error(table) ==
  LET n == Size(table)
      n_test == n_test_of(n)
      n_train == n - n_test
      n_classes == Cardinality(Labels(table))
  IN IF n_train = 0 THEN "the resulting train set will be empty"
     ELSE IF \E c \in Labels(table) : ClassCount(table, c) < 2
       THEN "The least populated class in y has only 1 member"
     ELSE IF n_train < n_classes
       THEN "The train_size should be greater or equal to the number of classes"
     ELSE IF n_test < n_classes
       THEN "The test_size should be greater or equal to the number of classes"
     ELSE ""

\* the orders in which the kinds of a bag may first occur
Orders(bag) ==
  LET S == Support(bag)
      m == Cardinality(S)
  IN { o \in [ 1..m -> S ] : \A i, j \in 1..m : o[i] = o[j] => i = j }

\* ------------------------------------------------------------ classifier
\* LogisticRegression.fit on the rows rows, vectorized in n_cols columns:
\* classes_ are the sorted labels; coef_ has one row per class, but a single
\* row (that of classes_[2]) when there are two classes; each coefficient is
\* the term naming the fit, the row and the column.
fit_classifier(rows, n_cols) ==
  LET classes == unique(Labels(rows))
      n_rows == IF Len(classes) = 2 THEN 1 ELSE Len(classes)
  IN [ classes_ |-> classes,
       coef_ |-> [ i \in 1..n_rows |->
                     [ j \in 1..n_cols |-> [ fit |-> rows, row |-> i, col |-> j ] ] ],
       intercept_ |-> [ i \in 1..n_rows |-> [ fit |-> rows, row |-> i ] ] ]

\* cross_val_score fitting the estimator it is given, not a clone of it
cross_val_fit_in_place(estimator, rows, n_cols) ==
  Some(fit_classifier(rows, n_cols))

\* cross_val_score(self.classifier, ...) fits a clone of the estimator on
\* each fold; the estimator after the call
cross_val_fit(estimator, rows, n_cols) == estimator

n_splits == 5

\* StratifiedKFold(5): the ValueError it raises, or ""
cross_val_error(table) ==
  IF n_splits > Size(table) THEN "Cannot have number of splits greater than the number of samples"
  ELSE IF \A c \in Labels(table) : n_splits > ClassCount(table, c)
    THEN "n_splits cannot be greater than the number of members in each class"
  ELSE ""

\* The training parts of the folds: all rows less a fold holding, of each
\* class, a fifth of its rows rounded down or up.
fold_train_rows(table) ==
  { [ k \in Kinds |-> table[k] - held[k] ] :
      held \in { h \in [ Kinds -> 0..(MaxPerKind \div n_splits + 1) ] :
                   \A k \in Kinds :
                     /\ h[k] <= table[k]
                     /\ h[k] >= table[k] \div n_splits
                     /\ h[k] <= (table[k] + n_splits - 1) \div n_splits } }

\* ------------------------------------------------------------ export
\* idf_scores pairing vocabulary[i] with idf_[i], the i-th column's idf
export_idf_scores_by_position(v) ==
  [ i \in DOMAIN v.vocabulary_.keys |-> << v.vocabulary_.keys[i], v.idf_[i] >> ]

\* idf_scores: for each word of vocabulary, [word, idf_[vocabulary_[word]]]
export_idf_scores(v) ==
  [ i \in DOMAIN v.vocabulary_.keys |->
      << v.vocabulary_.keys[i],
         v.idf_[v.vocabulary_.index[v.vocabulary_.keys[i]] + 1] >> ]

\* classifier_weights: for the i-th class, weights[feature_names[j]] =
\* coef_[i][j] and bias = intercept_[i]
export_classifier_weights(v, c) ==
  LET feature_names == get_feature_names_out(v)
  IN [ category \in Range(c.classes_) |->
         LET i == CHOOSE i \in DOMAIN c.classes_ : c.classes_[i] = category
         IN [ weights |-> [ feature \in Range(feature_names) |->
                              LET j == CHOOSE j \in DOMAIN feature_names :
                                         feature_names[j] = feature
                              IN c.coef_[i][j] ],
              bias |-> c.intercept_[i] ] ]

\* export_data of export_model(output_path, metadata)
export_data_of(v, c, metadata) ==
  [ vectorizer |-> [ vocabulary |-> v.vocabulary_.keys,
                     idf_scores |-> export_idf_scores(v) ],
    classifier |-> [ weights |-> export_classifier_weights(v, c),
                     categories |-> c.classes_ ],
    metadata |-> [ accuracy |-> metadata.test_accuracy,
                   training_samples |->
                     IF metadata.n_samples = None THEN 0 ELSE metadata.n_samples[1],
                   version |-> "1.0",
                   features |-> Len(get_feature_names_out(v)),
                   cv_accuracy |-> metadata.cv_accuracy ] ]

\* json.dump writes export_data in pieces; the top-level keys, in order
Sections == << "vectorizer", "classifier", "metadata" >>

\* A file: absent, or holding the first `written` sections of an artifact.
NoFile == [ exists |-> FALSE, artifact |-> None, written |-> 0 ]
FileOf(artifact, written) ==
  [ exists |-> TRUE,
    artifact |-> IF written = 0 THEN None ELSE Some(artifact),
    written |-> written ]

\* The artifact an earlier run left at the output path.
PreviousArtifact ==
  [ vectorizer |-> [ vocabulary |-> << << "rent" >> >>,
                     idf_scores |-> << << << "rent" >>, [ n |-> 4, df |-> 2 ] >> >> ],
    classifier |-> [ weights |->
                       [ category \in { "Other" } |->
                           [ weights |-> [ feature \in { << "rent" >> } |->
                                             [ fit |-> EmptyBag, row |-> 1, col |-> 1 ] ],
                             bias |-> [ fit |-> EmptyBag, row |-> 1 ] ] ],
                     categories |-> << "Other" >> ],
    metadata |-> [ accuracy |-> "score(X_test_vec, y_test)",
                   training_samples |-> 4,
                   version |-> "1.0",
                   features |-> 1,
                   cv_accuracy |-> "cv_scores.mean()" ] ]

\* ------------------------------------------------------------ state
VARIABLES
  pc,          \* the statement main, load_data, train or export_model is at
  args,        \* the parsed command line
  csv,         \* the file at args.input
  out_before,  \* the file at args.output when the run starts
  outfile,     \* the file at args.output
  df,          \* load_data's df, then main's
  X_text,      \* the documents, by row kind
  y,           \* the labels, by row kind
  parts,       \* train's X_train/y_train (rows, order) and X_test/y_test (test)
  vectorizer,  \* self.vectorizer's fitted attributes, None before the fit
  classifier,  \* self.classifier's fitted attributes, None before the fit
  metrics,     \* the dict train returns
  export_data, \* export_model's export_data
  error,       \* the exception that was raised
  tpc,         \* the document builder under test: its position
  row,         \*   the record handed to it
  bucket,      \*   get_amount_bucket's result
  document     \*   prepare_text's result

pipeline_vars ==
  << pc, args, csv, out_before, outfile, df, X_text, y, parts, vectorizer,
     classifier, metrics, export_data, error >>
text_vars == << tpc, row, bucket, document >>
vars == << pipeline_vars, text_vars >>

required_cols == << "description", "category" >>
AllColumns == { "description", "merchant", "amount", "category" }

\* The input files: none at the path; a table lacking a required column;
\* a table with every column and up to MaxPerKind rows of each kind, up to
\* MaxOutside of them of the kind whose category is outside CATEGORIES.
CsvFiles ==
  { [ exists |-> FALSE, columns |-> {}, rows |-> EmptyBag ] }
  \cup { [ exists |-> TRUE, columns |-> AllColumns \ missing, rows |-> rows ] :
           missing \in { { "description" }, { "category" }, { "description", "category" } },
           rows \in [ Kinds -> 0..1 ] }
  \cup { [ exists |-> TRUE, columns |-> AllColumns, rows |-> rows ] :
           rows \in { r \in [ Kinds -> 0..MaxPerKind ] : r["k4"] <= MaxOutside } }

TrainSteps ==
  { "train_split", "train_fit_vectorizer", "train_transform_test",
    "train_fit_classifier", "train_transform_all", "train_cross_val",
    "train_print_top_features" }
LoadSteps == { "load_read", "load_validate", "load_filter", "load_prepare" }
ExportSteps == { "export_build", "export_open", "export_dump" }

\* An exception raised in load_data or train reaching a handler that goes on
\* to export.
propagate_then_export(at) ==
  IF at \in LoadSteps \cup TrainSteps THEN "export_build" ELSE "failed"

\* main has no handler: an exception raised at any statement ends the run.
propagate(at) == "failed"

\* names: what the message names (a column), or None
raise(type, message, names) ==
  /\ error' = Some([ type |-> type, message |-> message, names |-> names, at |-> pc ])
  /\ pc' = propagate(pc)

PipelineInit ==
  /\ pc = "main"
  /\ args \in { [ input |-> None, output |-> "model.json" ],
                [ input |-> Some("transactions.csv"), output |-> "model.json" ] }
  /\ csv \in CsvFiles
  /\ args.input = None => ~csv.exists
  /\ out_before \in { NoFile, FileOf(PreviousArtifact, Len(Sections)) }
  /\ outfile = out_before
  /\ df = None
  /\ X_text = None
  /\ y = None
  /\ parts = None
  /\ vectorizer = None
  /\ classifier = None
  /\ metrics = None
  /\ export_data = None
  /\ error = None

PipelineOff ==
  /\ pc = "off"
  /\ args = [ input |-> None, output |-> "model.json" ]
  /\ csv = [ exists |-> FALSE, columns |-> {}, rows |-> EmptyBag ]
  /\ out_before = NoFile
  /\ outfile = NoFile
  /\ df = None
  /\ X_text = None
  /\ y = None
  /\ parts = None
  /\ vectorizer = None
  /\ classifier = None
  /\ metrics = None
  /\ export_data = None
  /\ error = None

TextOff ==
  /\ tpc = "off"
  /\ row = [ description |-> <<>>, merchant |-> <<>>, amount |-> <<>> ]
  /\ bucket = None
  /\ document = None

\* ------------------------------------------------------------ main, load_data
\* main, lines 311-323 and 335-336: without --input it prints and ends.
\* (Runs without --create-synthetic.)
main_start ==
  /\ pc = "main"
  /\ pc' = IF args.input # None THEN "load_read" ELSE "done"
  /\ UNCHANGED << args, csv, out_before, outfile, df, X_text, y, parts,
                  vectorizer, classifier, metrics, export_data, error,
                  text_vars >>

\* df = pd.read_csv(filepath)
load_data_read ==
  /\ pc = "load_read"
  /\ IF csv.exists
       THEN /\ df' = Some([ columns |-> csv.columns, rows |-> csv.rows ])
            /\ pc' = "load_validate"
            /\ UNCHANGED error
       ELSE /\ raise("FileNotFoundError", "No such file or directory", None)
            /\ UNCHANGED df
  /\ UNCHANGED << args, csv, out_before, outfile, X_text, y, parts, vectorizer,
                  classifier, metrics, export_data,
                  text_vars >>

\* the first column of required_cols that the table lacks, or None
missing_column(columns) ==
  LET lacking == SelectSeq(required_cols, LAMBDA col : col \notin columns)
  IN IF lacking = <<>> THEN None ELSE Some(lacking[1])

\* for col in required_cols: if col not in df.columns: raise ValueError
load_data_validate ==
  /\ pc = "load_validate"
  /\ IF missing_column(df[1].columns) # None
       THEN raise("ValueError", "Missing required column", missing_column(df[1].columns))
       ELSE /\ pc' = "load_filter"
            /\ UNCHANGED error
  /\ UNCHANGED << args, csv, out_before, outfile, df, X_text, y, parts,
                  vectorizer, classifier, metrics, export_data,
                  text_vars >>

\* The rows with no filter at all.
filter_categories_none(rows) == rows

\* df[df['category'].isin(CATEGORIES)]
filter_categories(rows) ==
  [ k \in Kinds |-> IF isin(KindRow[k].category, CATEGORIES) THEN rows[k] ELSE 0 ]

load_data_filter ==
  /\ pc = "load_filter"
  /\ df' = Some([ df[1] EXCEPT !.rows = filter_categories(df[1].rows) ])
  /\ pc' = "load_prepare"
  /\ UNCHANGED << args, csv, out_before, outfile, X_text, y, parts, vectorizer,
                  classifier, metrics, export_data, error,
                  text_vars >>

\* row.get(col): the cell, None when the table has no such column
cell(columns, k, col) ==
  IF col \in columns THEN KindRow[k][col] ELSE <<>>

\* X_text = df.apply(self.prepare_text, axis=1).values; y = df['category'].values
load_data_prepare ==
  /\ pc = "load_prepare"
  /\ X_text' = Some([ k \in Support(df[1].rows) |->
                        prepare_text([ description |-> cell(df[1].columns, k, "description"),
                                       merchant |-> cell(df[1].columns, k, "merchant"),
                                       amount |-> cell(df[1].columns, k, "amount") ]) ])
  /\ y' = Some([ k \in Support(df[1].rows) |-> KindRow[k].category ])
  /\ pc' = "train_split"
  /\ UNCHANGED << args, csv, out_before, outfile, df, parts, vectorizer,
                  classifier, metrics, export_data, error,
                  text_vars >>

\* ------------------------------------------------------------ train
\* train_test_split(X_text, y, test_size=0.2, random_state=42, stratify=y)
train_split ==
  /\ pc = "train_split"
  /\ IF split_error(df[1].rows) # ""
       THEN /\ raise("ValueError", split_error(df[1].rows), None)
            /\ UNCHANGED parts
       ELSE /\ \E rows \in split_rows(df[1].rows) : \E order \in Orders(rows) :
                 parts' = Some([ rows |-> rows, order |-> order,
                                 test |-> [ k \in Kinds |-> df[1].rows[k] - rows[k] ] ])
            /\ pc' = "train_fit_vectorizer"
            /\ UNCHANGED error
  /\ UNCHANGED << args, csv, out_before, outfile, df, X_text, y, vectorizer,
                  classifier, metrics, export_data,
                  text_vars >>

\* X_train_vec = self.vectorizer.fit_transform(X_train)
train_fit_vectorizer ==
  /\ pc = "train_fit_vectorizer"
  /\ IF fit_error(X_text[1], parts[1].rows, parts[1].order) # ""
       THEN /\ raise("ValueError", fit_error(X_text[1], parts[1].rows, parts[1].order), None)
            /\ UNCHANGED vectorizer
       ELSE /\ vectorizer' = Some(fit_vectorizer(X_text[1], parts[1].rows, parts[1].order))
            /\ pc' = "train_transform_test"
            /\ UNCHANGED error
  /\ UNCHANGED << args, csv, out_before, outfile, df, X_text, y, parts,
                  classifier, metrics, export_data,
                  text_vars >>

\* fit_transform in the place of transform: the vectorizer refitted on the
\* rows it is asked to transform
fit_transform_again(v, X, rows) ==
  Some(fit_vectorizer(X, rows, CHOOSE o \in Orders(rows) : TRUE))

\* self.vectorizer.transform(rows): the vectorizer after the call.  It reads
\* vocabulary_ and idf_ and returns a new matrix.
transform(v, X, rows) == v

\* X_test_vec = self.vectorizer.transform(X_test)
train_transform_test ==
  /\ pc = "train_transform_test"
  /\ vectorizer' = transform(vectorizer, X_text[1], parts[1].test)
  /\ pc' = "train_fit_classifier"
  /\ UNCHANGED << args, csv, out_before, outfile, df, X_text, y, parts,
                  classifier, metrics, export_data, error,
                  text_vars >>

\* self.classifier.fit(X_train_vec, y_train)
train_fit_classifier ==
  /\ pc = "train_fit_classifier"
  /\ IF Cardinality(Labels(parts[1].rows)) < 2
       THEN /\ raise("ValueError", "This solver needs samples of at least 2 classes", None)
            /\ UNCHANGED classifier
       ELSE /\ classifier' = Some(fit_classifier(parts[1].rows,
                                                 Len(vectorizer[1].vocabulary_.keys)))
            /\ pc' = "train_transform_all"
            /\ UNCHANGED error
  /\ UNCHANGED << args, csv, out_before, outfile, df, X_text, y, parts,
                  vectorizer, metrics, export_data,
                  text_vars >>

\* train_score, test_score = self.classifier.score(...) (reads the classifier);
\* X_all_vec = self.vectorizer.transform(X_text)
train_transform_all ==
  /\ pc = "train_transform_all"
  /\ vectorizer' = transform(vectorizer, X_text[1], df[1].rows)
  /\ pc' = "train_cross_val"
  /\ UNCHANGED << args, csv, out_before, outfile, df, X_text, y, parts,
                  classifier, metrics, export_data, error,
                  text_vars >>

\* cv_scores = cross_val_score(self.classifier, X_all_vec, y, cv=5)
train_cross_val ==
  /\ pc = "train_cross_val"
  /\ IF cross_val_error(df[1].rows) # ""
       THEN /\ raise("ValueError", cross_val_error(df[1].rows), None)
            /\ UNCHANGED classifier
       ELSE /\ \E fold \in fold_train_rows(df[1].rows) :
                 classifier' = cross_val_fit(classifier, fold,
                                             Len(vectorizer[1].vocabulary_.keys))
            /\ pc' = "train_print_top_features"
            /\ UNCHANGED error
  /\ UNCHANGED << args, csv, out_before, outfile, df, X_text, y, parts,
                  vectorizer, metrics, export_data,
                  text_vars >>

\* y_pred = self.classifier.predict(X_test_vec) and the report (read the
\* classifier); print_top_features(n=5) reads coef_[i] for every i-th class:
\* IndexError when coef_ has fewer rows than classes_; then train returns.
train_print_top_features ==
  /\ pc = "train_print_top_features"
  /\ IF Len(classifier[1].coef_) < Len(classifier[1].classes_)
       THEN /\ raise("IndexError", "index 1 is out of bounds for axis 0 with size 1", None)
            /\ UNCHANGED metrics
       ELSE /\ metrics' = Some([ train_accuracy |-> "score(X_train_vec, y_train)",
                                 test_accuracy |-> "score(X_test_vec, y_test)",
                                 cv_accuracy |-> "cv_scores.mean()",
                                 cv_std |-> "cv_scores.std()",
                                 n_samples |-> None ])
            /\ pc' = "main_n_samples"
            /\ UNCHANGED error
  /\ UNCHANGED << args, csv, out_before, outfile, df, X_text, y, parts,
                  vectorizer, classifier, export_data,
                  text_vars >>

\* ------------------------------------------------------------ export_model
\* The number of rows of the file as read, before the filter.
len_unfiltered(table) == Size(csv.rows)

\* len(df)
len(table) == Size(table.rows)

\* metrics['n_samples'] = len(df)
main_n_samples ==
  /\ pc = "main_n_samples"
  /\ metrics' = Some([ metrics[1] EXCEPT !.n_samples = Some(len(df[1])) ])
  /\ pc' = "export_build"
  /\ UNCHANGED << args, csv, out_before, outfile, df, X_text, y, parts,
                  vectorizer, classifier, export_data, error,
                  text_vars >>

\* The exception building export_data raises, or "": the attributes exist
\* only after the fits, and coef_[i] only for the rows coef_ has.
export_error ==
  IF vectorizer = None \/ classifier = None THEN "AttributeError"
  ELSE IF Len(classifier[1].coef_) < Len(classifier[1].classes_) THEN "IndexError"
  ELSE IF metrics = None THEN "TypeError"
  ELSE ""

\* export_model, lines 194-233: export_data is built
export_build ==
  /\ pc = "export_build"
  /\ IF export_error # ""
       THEN /\ raise(export_error, "export_model", None)
            /\ UNCHANGED export_data
       ELSE /\ export_data' = Some(export_data_of(vectorizer[1], classifier[1], metrics[1]))
            /\ pc' = "export_open"
            /\ UNCHANGED error
  /\ UNCHANGED << args, csv, out_before, outfile, df, X_text, y, parts,
                  vectorizer, classifier, metrics,
                  text_vars >>

\* open(output_path, 'w'): the file is created or truncated; or the open fails
\* and leaves the path as it was
export_open ==
  /\ pc = "export_open"
  /\ \E opened \in BOOLEAN :
       IF opened
         THEN /\ outfile' = FileOf(export_data[1], 0)
              /\ pc' = "export_dump"
              /\ UNCHANGED error
         ELSE /\ raise("OSError", "open", None)
              /\ UNCHANGED outfile
  /\ UNCHANGED << args, csv, out_before, df, X_text, y, parts, vectorizer,
                  classifier, metrics, export_data,
                  text_vars >>

\* json.dump(export_data, f, indent=2): the next piece is written, or the
\* write fails and the with block closes the file as it is; after the last
\* piece the file is closed and export_model returns
export_dump ==
  /\ pc = "export_dump"
  /\ IF outfile.written < Len(Sections)
       THEN \E wrote \in BOOLEAN :
              IF wrote
                THEN /\ outfile' = FileOf(export_data[1], outfile.written + 1)
                     /\ UNCHANGED << pc, error >>
                ELSE /\ raise("OSError", "write", None)
                     /\ UNCHANGED outfile
       ELSE /\ pc' = "done"
            /\ UNCHANGED << outfile, error >>
  /\ UNCHANGED << args, csv, out_before, df, X_text, y, parts, vectorizer,
                  classifier, metrics, export_data,
                  text_vars >>

\* ------------------------------------------------------------ specification
Next ==
  \/ main_start
  \/ load_data_read
  \/ load_data_validate
  \/ load_data_filter
  \/ load_data_prepare
  \/ train_split
  \/ train_fit_vectorizer
  \/ train_transform_test
  \/ train_fit_classifier
  \/ train_transform_all
  \/ train_cross_val
  \/ train_print_top_features
  \/ main_n_samples
  \/ export_build
  \/ export_open
  \/ export_dump

Init == PipelineInit /\ TextOff

Spec == Init /\ [][Next]_vars

\* ------------------------------------------------------------ document builder
\* The records handed to the document builder: every combination of a
\* present or missing description, merchant and amount, the amounts around
\* each bucket boundary.
Amounts ==
  { a \in { b + d : b \in { 0, 100 * 100, 500 * 100, 1000 * 100, 5000 * 100 },
                    d \in (0 - MaxDelta)..MaxDelta } : a >= 0 }

Records ==
  [ description : { <<>>, << << "Swiggy", " ", "food", " ", "delivery" >> >> },
    merchant : { <<>>, << << "Swiggy" >> >> },
    amount : { <<>> } \cup { << a >> : a \in Amounts } ]

TextInit ==
  /\ tpc = "input"
  /\ row \in Records
  /\ bucket = None
  /\ document = None

\* self.get_amount_bucket(amount) on the record's amount
call_get_amount_bucket ==
  /\ tpc = "input"
  /\ notna(row.amount)
  /\ bucket' = Some(get_amount_bucket(row.amount[1]))
  /\ tpc' = "bucketed"
  /\ UNCHANGED << row, document, pipeline_vars >>

\* self.prepare_text(row)
call_prepare_text ==
  /\ tpc = "input"
  /\ document' = Some(prepare_text(row))
  /\ tpc' = "prepared"
  /\ UNCHANGED << row, bucket, pipeline_vars >>

NextText ==
  \/ call_get_amount_bucket
  \/ call_prepare_text

InitText == PipelineOff /\ TextInit

SpecText == InitText /\ [][NextText]_vars

\* ------------------------------------------------------------ claims
\* C1: for every non-negative amount get_amount_bucket returns exactly one of
\* the five bucket tokens, the one of the table: below 100 tiny_amount,
\* [100, 500) small_amount, [500, 1000) medium_amount, [1000, 5000)
\* large_amount, 5000 and above huge_amount.
C1_BucketTable ==
  (tpc = "bucketed" /\ row.amount[1] >= 0) =>
    LET a == row.amount[1]
        b == bucket[1]
    IN /\ b \in Range(amount_buckets)
       /\ (b = "tiny_amount") <=> (a < 10000)
       /\ (b = "small_amount") <=> (10000 <= a /\ a < 50000)
       /\ (b = "medium_amount") <=> (50000 <= a /\ a < 100000)
       /\ (b = "large_amount") <=> (100000 <= a /\ a < 500000)
       /\ (b = "huge_amount") <=> (500000 <= a)

\* 100.00 is a small amount
C1_Witness ==
  /\ tpc = "bucketed"
  /\ row.amount = << 10000 >>
  /\ bucket = << "small_amount" >>

\* the document the claim describes, case by case
ExpectedDocument(r) ==
  LET d == r.description[1]
      m == r.merchant[1]
      b == << IF r.amount[1] < 10000 THEN "tiny_amount"
              ELSE IF r.amount[1] < 50000 THEN "small_amount"
              ELSE IF r.amount[1] < 100000 THEN "medium_amount"
              ELSE IF r.amount[1] < 500000 THEN "large_amount"
              ELSE "huge_amount" >>
      hasD == r.description # <<>>
      hasM == r.merchant # <<>>
      hasA == r.amount # <<>>
  IN CASE hasD /\ hasM /\ hasA -> d \o << " " >> \o m \o << " " >> \o b
       [] hasD /\ hasM /\ ~hasA -> d \o << " " >> \o m
       [] hasD /\ ~hasM /\ hasA -> d \o << " " >> \o b
       [] hasD /\ ~hasM /\ ~hasA -> d
       [] ~hasD /\ hasM /\ hasA -> m \o << " " >> \o b
       [] ~hasD /\ hasM /\ ~hasA -> m
       [] ~hasD /\ ~hasM /\ hasA -> b
       [] OTHER -> <<>>

\* C8: prepare_text returns one document for every record: the description
\* if present, the merchant if present and the bucket token of the amount if
\* present, in this order, joined by single spaces; a missing amount adds no
\* bucket token.
C8_PrepareText ==
  tpc = "prepared" =>
    /\ Len(document) = 1
    /\ document[1] = ExpectedDocument(row)
    /\ row.amount = <<>> =>
         \A i \in DOMAIN document[1] : document[1][i] \notin Range(amount_buckets)

\* description and merchant present, amount missing
C8_Witness ==
  /\ tpc = "prepared"
  /\ row.description # <<>>
  /\ row.merchant # <<>>
  /\ row.amount = <<>>
  /\ document = << << "Swiggy", " ", "food", " ", "delivery", " ", "Swiggy" >> >>

\* the file at the output path was written in full by this run
Exported == outfile # out_before /\ outfile.written = Len(Sections)

\* C2: the categories list and the keys of weights of every artifact that
\* export_model writes hold only labels of the registry, whatever labels the
\* input rows carry; rows with another label are dropped by load_data and
\* reach neither the split, nor the fit, nor the export.
C2_CategoryClosure ==
  /\ X_text # None => Labels(df[1].rows) \subseteq Range(CATEGORIES)
  /\ X_text # None => { y[1][k] : k \in DOMAIN y[1] } \subseteq Range(CATEGORIES)
  /\ parts # None =>
       Labels(parts[1].rows) \cup Labels(parts[1].test) \subseteq Range(CATEGORIES)
  /\ classifier # None => Range(classifier[1].classes_) \subseteq Range(CATEGORIES)
  /\ (outfile # out_before /\ outfile.written >= 2) =>
       /\ Range(outfile.artifact[1].classifier.categories) \subseteq Range(CATEGORIES)
       /\ DOMAIN outfile.artifact[1].classifier.weights \subseteq Range(CATEGORIES)

\* an artifact written from a file that holds rows outside the registry
C2_Witness ==
  /\ pc = "done"
  /\ Exported
  /\ csv.rows["k4"] > 0
  /\ Len(outfile.artifact[1].classifier.categories) = 3

C4_AtomicWrite ==
  \/ outfile = out_before
  \/ export_data # None /\ outfile = FileOf(export_data[1], Len(Sections))

\* C5: the fitted parameters of the vectorizer and of the classifier are
\* written once each, by the fit on the training split, and only read after
\* that (by the transforms, the cross-validation, print_top_features and
\* export_model); the exported weights and biases are those of that fit.
C5_WriteOnce ==
  [][ /\ vectorizer # None => vectorizer' = vectorizer
      /\ classifier # None => classifier' = classifier
      /\ (vectorizer = None /\ vectorizer' # None) =>
           /\ pc = "train_fit_vectorizer"
           /\ vectorizer'[1] = fit_vectorizer(X_text[1], parts[1].rows, parts[1].order)
      /\ (classifier = None /\ classifier' # None) =>
           /\ pc = "train_fit_classifier"
           /\ classifier'[1] = fit_classifier(parts[1].rows, Len(vectorizer[1].vocabulary_.keys))
      /\ (export_data = None /\ export_data' # None) =>
           \A c \in DOMAIN export_data'[1].classifier.weights :
             LET w == export_data'[1].classifier.weights[c]
             IN /\ w.bias.fit = parts[1].rows
                /\ \A f \in DOMAIN w.weights : w.weights[f].fit = parts[1].rows
    ]_vars

\* a run that went through every step after the fits and exported
C5_Witness ==
  /\ pc = "done"
  /\ Exported
  /\ vectorizer # None
  /\ classifier # None
  /\ parts[1].rows # df[1].rows

\* C6: the categories that have parameters, and that export_model writes as
\* categories and as the keys of weights, are exactly the categories of the
\* training split, and, the split being stratified, exactly the categories
\* of the whole filtered corpus.
C6_ClassesOfSplit ==
  /\ parts # None => Labels(parts[1].rows) = Labels(df[1].rows)
  /\ classifier # None => Range(classifier[1].classes_) = Labels(parts[1].rows)
  /\ export_data # None =>
       /\ Range(export_data[1].classifier.categories) = Labels(parts[1].rows)
       /\ DOMAIN export_data[1].classifier.weights = Labels(df[1].rows)
  /\ Exported => outfile.artifact = export_data

\* train has returned on a corpus whose smallest class has two rows, one of
\* them held out
C6_Witness ==
  /\ pc = "done"
  /\ Exported
  /\ df[1].rows["k1"] = 2
  /\ parts[1].rows["k1"] = 1
  /\ Len(classifier[1].classes_) = 3

\* C7: in every artifact idf_scores has one entry per vocabulary entry, the
\* i-th being [vocabulary[i], the idf of that feature]; every category of
\* categories has an entry in weights whose weights map has the vocabulary's
\* features as keys, each with the coefficient of that feature for that
\* category, and whose bias is the category's intercept; categories is in
\* the row order of the weight arrays.
C7_Aligned ==
  export_data # None =>
    LET a == export_data[1]
        v == vectorizer[1]
        c == classifier[1]
        vocabulary == a.vectorizer.vocabulary
    IN /\ Len(a.vectorizer.idf_scores) = Len(vocabulary)
       /\ Cardinality(Range(vocabulary)) = Len(vocabulary)
       /\ \A i \in DOMAIN vocabulary :
            /\ a.vectorizer.idf_scores[i][1] = vocabulary[i]
            /\ a.vectorizer.idf_scores[i][2] =
                 [ n |-> Size(parts[1].rows),
                   df |-> DocFreq(X_text[1], parts[1].rows, vocabulary[i]) ]
       /\ \A i \in DOMAIN a.classifier.categories :
            LET category == a.classifier.categories[i]
            IN /\ category \in DOMAIN a.classifier.weights
               /\ DOMAIN a.classifier.weights[category].weights = Range(vocabulary)
               /\ Cardinality(DOMAIN a.classifier.weights[category].weights) = Len(vocabulary)
               /\ \A f \in Range(vocabulary) :
                    a.classifier.weights[category].weights[f] =
                      c.coef_[i][v.vocabulary_.index[f] + 1]
               /\ a.classifier.weights[category].bias = c.intercept_[i]
               /\ category = c.classes_[i]
       /\ Exported => outfile.artifact = export_data

\* an artifact whose vocabulary is not in column order and whose features
\* differ in document frequency
C7_Witness ==
  /\ pc = "done"
  /\ Exported
  /\ \E i \in DOMAIN vectorizer[1].vocabulary_.keys :
       vectorizer[1].vocabulary_.index[vectorizer[1].vocabulary_.keys[i]] # i - 1
  /\ \E i, j \in DOMAIN vectorizer[1].idf_ : vectorizer[1].idf_[i] # vectorizer[1].idf_[j]

\* the filtered corpus reached the split and holds a class of fewer than two rows
SplitTried == X_text # None /\ pc # "train_split"
SmallClass == \E c \in Labels(df[1].rows) : ClassCount(df[1].rows, c) < 2

LabelledRows ==
  SumOver(csv.rows, { k \in Kinds : \E i \in DOMAIN CATEGORIES : CATEGORIES[i] = KindRow[k].category })

\* C10: metadata.training_samples is the number of input rows left by
\* load_data's filter, the training split and the held-out split together,
\* not the size of the training split; metadata.features is the number of
\* entries of vocabulary and of keys of every category's weights map.
C10_Metadata ==
  export_data # None =>
    LET a == export_data[1]
    IN /\ a.metadata.training_samples = LabelledRows
       /\ a.metadata.training_samples = Size(parts[1].rows) + Size(parts[1].test)
       /\ a.metadata.training_samples > Size(parts[1].rows)
       /\ a.metadata.features = Len(a.vectorizer.vocabulary)
       /\ \A c \in DOMAIN a.classifier.weights :
            a.metadata.features = Cardinality(DOMAIN a.classifier.weights[c].weights)
       /\ Exported => outfile.artifact = export_data

\* an artifact of a file some of whose rows the filter dropped
C10_Witness ==
  /\ pc = "done"
  /\ Exported
  /\ outfile.artifact[1].metadata.training_samples < Size(csv.rows)
  /\ outfile.artifact[1].metadata.features > 0

====
